---- MODULE Spec2Model ----
(***************************************************************************)
(* Health monitor (src/main.ts): timeout-bounded probes of a fixed list of *)
(* endpoints, batches of concurrent probes, a process-wide result cache    *)
(* written by GET /check and by the background timer, and the HTTP routes. *)
(*                                                                         *)
(* One action is one run-to-completion step of the event loop: a request   *)
(* handler up to its first await, a timer callback, the settlement of one  *)
(* fetch or body read, or the continuation after Promise.all.              *)
(* Record timestamps (new Date().toISOString()) are not modelled.          *)
(***************************************************************************)
EXTENDS Integers, Sequences, FiniteSets, TLC

VARIABLES
  healthCheckInterval,  \* main.ts:84  id of the repeating timer, or Null
  lastCheckResults,     \* main.ts:85  the result cache
  started,              \* number of batches started so far (names the batches)
  batch,                \* the invocations awaiting their probes
  probe,                \* probe[b][i]: the checkHealth call of batch b on ENDPOINTS[i]
  resp,                 \* the response sent by the step just taken, if any
  intervals,            \* the repeating timers that are armed
  lastWriter            \* the batch whose continuation ran most recently and its array

vars == <<healthCheckInterval, lastCheckResults, started, batch, probe, resp, intervals,
          lastWriter>>

NoResponse == [route |-> "none"]

\* A step that sends no response.
Silent == resp' = NoResponse

-----------------------------------------------------------------------------
(* Configuration                                                           *)

ENDPOINTS ==
  << [name |-> "Gemini Balance", url |-> "https://luckiness-me-gemini-balance.hf.space/health"],
     [name |-> "Demo API",       url |-> "https://luckiness-test-df-demo.hf.space/health"] >>

N == Len(ENDPOINTS)

TIMEOUT_MS == 5000

INTERVAL_MS == 900000

\* Bounds of the model
MaxBatches == 2

Null == "null"

Batches == 1..MaxBatches
Positions == 1..N

-----------------------------------------------------------------------------
(* What a remote endpoint may answer                                       *)

\* A content-type header value, as the list of its parts; <<>> is a missing header
\* (response.headers.get(...) || "").
CT_JSON == <<"application/json">>
CT_JSON_UTF8 == <<"application/json", "; charset=utf-8">>
CT_TEXT == <<"text/plain">>
CT_NONE == <<>>

BODY_OK == "{\"status\":\"ok\"}"
BODY_NULL == "null"
BODY_HTML == "<html>busy</html>"
BODY_EMPTY == ""

Statuses == {200, 204, 299, 300, 404, 503}

ContentTypes == {CT_JSON, CT_JSON_UTF8, CT_TEXT, CT_NONE}

Bodies == {BODY_OK, BODY_NULL, BODY_HTML, BODY_EMPTY}

\* Every reply of the bounded universe: used where one batch is examined alone.
AllReplies == [status : Statuses, contentType : ContentTypes, body : Bodies]

\* The replies used where several batches run concurrently.
Replies ==
  { [status |-> 200, contentType |-> CT_JSON,      body |-> BODY_OK],
    [status |-> 503, contentType |-> CT_TEXT,      body |-> BODY_HTML] }

\* Elapsed milliseconds between the two Date.now() calls of a probe: every value
\* of the bounded universe, and the one used where batches run concurrently.
AllElapsed == {0, 42, 4999}

Elapsed == {42}

\* contentType.includes("application/json")
IncludesJson(contentType) ==
  \E k \in 1..Len(contentType) : contentType[k] = "application/json"

\* response.json(): the parsed value, or the SyntaxError it throws.
JsonParse(body) ==
  CASE body = BODY_OK   -> [ok |-> TRUE,  value |-> <<"object", "status", "ok">>]
    [] body = BODY_NULL -> [ok |-> TRUE,  value |-> <<"null">>]
    [] body = BODY_EMPTY -> [ok |-> FALSE, message |-> "Unexpected end of JSON input"]
    [] OTHER            -> [ok |-> FALSE, message |-> "Unexpected token < in JSON"]

\* response.text()
TextOf(body) == <<"string", body>>

ABORT_MESSAGE == "The signal has been aborted"
NETWORK_MESSAGE == "error sending request"
BODY_MESSAGE == "error reading a body from connection"


-----------------------------------------------------------------------------
(* checkHealth and fetchWithTimeout                                        *)

\* `${latency}ms`
FormatLatency(latency) == ToString(latency) \o "ms"

IsHealthyUpTo300(status) == status >= 200 /\ status <= 300

\* response.status >= 200 && response.status < 300
IsHealthy(status) == status >= 200 /\ status < 300

SuccessRecordWithError(id, endpoint, status, latency, responseData) ==
  [ id       |-> id,
    name     |-> endpoint.name,
    url      |-> endpoint.url,
    status   |-> status,
    healthy  |-> status >= 200 /\ status < 300,
    latency  |-> FormatLatency(latency),
    response |-> responseData,
    error    |-> "" ]

\* The object returned at main.ts:61-69. id is the identity of the object: the
\* checkHealth call (batch, position) that built it.
SuccessRecord(id, endpoint, status, latency, responseData) ==
  [ id       |-> id,
    name     |-> endpoint.name,
    url      |-> endpoint.url,
    status   |-> status,
    healthy  |-> IsHealthy(status),
    latency  |-> FormatLatency(latency),
    response |-> responseData ]

\* The object returned at main.ts:72-79.
FailureRecord(id, endpoint, message) ==
  [ id      |-> id,
    name    |-> endpoint.name,
    url     |-> endpoint.url,
    status  |-> 0,
    healthy |-> FALSE,
    error   |-> message ]

CatchRethrows(id, endpoint, message) ==
  [kind |-> "throw", rec |-> FailureRecord(id, endpoint, message)]

\* How a call of checkHealth ends when its try block threw `message`: the catch
\* block returns the failure record.
CatchOutcome(id, endpoint, message) ==
  [kind |-> "return", rec |-> FailureRecord(id, endpoint, message)]

ReadOutcomeFallsBackToText(id, endpoint, reply, latency) ==
  [kind |-> "return",
   rec  |-> SuccessRecord(id, endpoint, reply.status, latency,
                          IF IncludesJson(reply.contentType) /\ JsonParse(reply.body).ok
                            THEN JsonParse(reply.body).value ELSE TextOf(reply.body))]

\* main.ts:52-69: read the body according to the content type, build the record.
\* A SyntaxError of response.json() is thrown inside the try block.
ReadOutcome(id, endpoint, reply, latency) ==
  IF IncludesJson(reply.contentType)
    THEN LET parsed == JsonParse(reply.body) IN
         IF parsed.ok
           THEN [kind |-> "return",
                 rec  |-> SuccessRecord(id, endpoint, reply.status, latency, parsed.value)]
           ELSE CatchOutcome(id, endpoint, parsed.message)
    ELSE [kind |-> "return",
          rec  |-> SuccessRecord(id, endpoint, reply.status, latency, TextOf(reply.body))]

\* An element of a Promise.all value array that is not filled yet.
Hole == [id |-> <<0, 0>>]

IdleProbe == [pc |-> "idle"]

\* main.ts:26-30: the controller and the deadline timer exist, the request is sent.
FetchingProbe == [pc |-> "fetching", timer |-> "armed", delay |-> TIMEOUT_MS]

\* A probe that has returned: how its fetch settled (settled), the reply received
\* (when one was), whether the whole body arrived, and what checkHealth returned.
DoneProbe(settled, received, outcome) ==
  [pc |-> "done", timer |-> "cleared", settled |-> settled, received |-> received,
   outcome |-> outcome]

NoReply == [status |-> 0, contentType |-> CT_NONE, body |-> BODY_EMPTY]

StoreValueInArrivalOrder(values, i, rec) ==
  LET k == CHOOSE j \in 1..Len(values) :
             values[j] = Hole /\ \A h \in 1..(j - 1) : values[h] # Hole
  IN [values EXCEPT ![k] = rec]

\* Promise.all keeps each value at the index of its promise.
StoreValue(values, i, rec) == [values EXCEPT ![i] = rec]

NoBatch == [kind |-> "none"]

\* A batch invocation: Promise.all(ENDPOINTS.map(checkHealth)) and its caller
\* ("check": the /check handler, "background": backgroundHealthCheck).
\* finished lists the positions in the order in which their probes settled.
NewBatch(kind) ==
  [kind |-> kind, values |-> [i \in Positions |-> Hole], remaining |-> N,
   finished |-> <<>>]

\* await checkHealth(ENDPOINTS[index]) of the /check/{index} handler.
NewSingle(index) ==
  [kind |-> "single", index |-> index,
   values |-> [i \in Positions |-> Hole], remaining |-> 1, finished |-> <<>>]

\* The positions of ENDPOINTS a batch probes.
Probed(b) ==
  CASE batch[b].kind = "none"   -> {}
    [] batch[b].kind = "single" -> {batch[b].index + 1}
    [] OTHER                    -> Positions

\* checkHealth(endpoint) returned or threw: the awaiting invocation takes the value.
Settle(b, i, settled, received, outcome) ==
  /\ probe' = [probe EXCEPT ![b][i] = DoneProbe(settled, received, outcome)]
  /\ batch' = [batch EXCEPT ![b].values =
                             IF outcome.kind = "return"
                               THEN StoreValue(@, i, outcome.rec) ELSE @,
                           ![b].remaining = @ - 1,
                           ![b].finished = Append(@, i)]

ReceiveKeepingTimer(b, i, replies, latencies) ==
  /\ probe[b][i].pc = "fetching"
  /\ \E reply \in replies, latency \in latencies :
       probe' = [probe EXCEPT ![b][i] =
                   [pc |-> "reading", timer |-> probe[b][i].timer, reply |-> reply,
                    latency |-> latency]]
  /\ Silent
  /\ UNCHANGED <<healthCheckInterval, lastCheckResults, started, batch, intervals, lastWriter>>

\* fetch resolves before the deadline: clearTimeout, latency taken (main.ts:34-35, 50).
Receive(b, i, replies, latencies) ==
  /\ probe[b][i].pc = "fetching"
  /\ \E reply \in replies, latency \in latencies :
       probe' = [probe EXCEPT ![b][i] =
                   [pc |-> "reading", timer |-> "cleared", reply |-> reply,
                    latency |-> latency]]
  /\ Silent
  /\ UNCHANGED <<healthCheckInterval, lastCheckResults, started, batch, intervals, lastWriter>>

ResponseArrives(b, i) == Receive(b, i, Replies, Elapsed)

AnyResponseArrives(b, i) == Receive(b, i, AllReplies, AllElapsed)

DeadlineFiresWithoutAbort(b, i) ==
  /\ probe[b][i].pc = "fetching"
  /\ probe[b][i].timer = "armed"
  /\ probe' = [probe EXCEPT ![b][i].timer = "fired"]
  /\ Silent
  /\ UNCHANGED <<healthCheckInterval, lastCheckResults, started, batch, intervals, lastWriter>>

\* The deadline timer fires: controller.abort() (main.ts:27).
DeadlineFires(b, i) ==
  /\ probe[b][i].pc = "fetching"
  /\ probe[b][i].timer = "armed"
  /\ probe' = [probe EXCEPT ![b][i] = [pc |-> "aborted", timer |-> "fired"]]
  /\ Silent
  /\ UNCHANGED <<healthCheckInterval, lastCheckResults, started, batch, intervals, lastWriter>>

AbortRejectsRetrying(b, i) ==
  /\ probe[b][i].pc = "aborted"
  /\ probe' = [probe EXCEPT ![b][i] = FetchingProbe]
  /\ Silent
  /\ UNCHANGED <<healthCheckInterval, lastCheckResults, started, batch, intervals, lastWriter>>

\* The aborted fetch rejects: main.ts:36-38, then the catch of checkHealth.
AbortRejects(b, i) ==
  /\ probe[b][i].pc = "aborted"
  /\ Settle(b, i, "aborted", NoReply, CatchOutcome(<<b, i>>, ENDPOINTS[i], ABORT_MESSAGE))
  /\ Silent
  /\ UNCHANGED <<healthCheckInterval, lastCheckResults, started, intervals, lastWriter>>

\* fetch rejects with a transport error (DNS, refused connection, TLS).
FetchFails(b, i) ==
  /\ probe[b][i].pc = "fetching"
  /\ Settle(b, i, "failed", NoReply, CatchOutcome(<<b, i>>, ENDPOINTS[i], NETWORK_MESSAGE))
  /\ Silent
  /\ UNCHANGED <<healthCheckInterval, lastCheckResults, started, intervals, lastWriter>>

\* The whole body has arrived: response.json() or response.text() settles.
BodyArrives(b, i) ==
  /\ probe[b][i].pc = "reading"
  /\ Settle(b, i, "body", probe[b][i].reply,
            ReadOutcome(<<b, i>>, ENDPOINTS[i], probe[b][i].reply, probe[b][i].latency))
  /\ Silent
  /\ UNCHANGED <<healthCheckInterval, lastCheckResults, started, intervals, lastWriter>>

\* The connection breaks while the body is read: the read rejects.
BodyBreaks(b, i) ==
  /\ probe[b][i].pc = "reading"
  /\ Settle(b, i, "broken", NoReply,
            CatchOutcome(<<b, i>>, ENDPOINTS[i], BODY_MESSAGE))
  /\ Silent
  /\ UNCHANGED <<healthCheckInterval, lastCheckResults, started, intervals, lastWriter>>

-----------------------------------------------------------------------------
(* Requests and route dispatch (handler, main.ts:97-329)                   *)

\* url.pathname, as the list of its characters
P_ROOT       == <<"/">>
P_CHECK      == <<"/", "c", "h", "e", "c", "k">>
P_LAST_CHECK == <<"/", "l", "a", "s", "t", "-", "c", "h", "e", "c", "k">>
P_CHECK_SLASH == P_CHECK \o <<"/">>
P_OTHER      == <<"/", "x">>

Paths ==
  { P_ROOT, P_CHECK, P_LAST_CHECK, P_CHECK_SLASH, P_OTHER,
    P_CHECK_SLASH \o <<"0">>, P_CHECK_SLASH \o <<"1">>, P_CHECK_SLASH \o <<"2">>,
    P_CHECK_SLASH \o <<"0", "1">>, P_CHECK_SLASH \o <<"-", "1">> }

\* Every path with GET, and two paths with the other methods.
Requests ==
  [method : {"GET"}, pathname : Paths]
  \cup [method : {"POST", "OPTIONS"}, pathname : {P_CHECK, P_OTHER}]

Digits == <<"0", "1", "2", "3", "4", "5", "6", "7", "8", "9">>

IsDigit(c) == \E d \in 1..Len(Digits) : Digits[d] = c

DigitValue(c) == (CHOOSE d \in 1..Len(Digits) : Digits[d] = c) - 1

\* url.pathname.match(/^\/check\/(\d+)$/): the capture group, or no match
MatchCheckIndex(pathname) ==
  LET k == Len(P_CHECK_SLASH) IN
  IF /\ Len(pathname) > k
     /\ SubSeq(pathname, 1, k) = P_CHECK_SLASH
     /\ \A j \in (k + 1)..Len(pathname) : IsDigit(pathname[j])
    THEN [matched |-> TRUE,  group |-> SubSeq(pathname, k + 1, Len(pathname))]
    ELSE [matched |-> FALSE, group |-> <<>>]

\* parseInt(match[1]) of a string of decimal digits
RECURSIVE ParseInt(_)
ParseInt(digits) ==
  IF digits = <<>> THEN 0
  ELSE ParseInt(SubSeq(digits, 1, Len(digits) - 1)) * Len(Digits)
       + DigitValue(digits[Len(digits)])

IndexInRangeFromOne(index) == index > 0 /\ index < N

\* index >= 0 && index < ENDPOINTS.length
IndexInRange(index) == index >= 0 /\ index < N

\* The branch of the handler a request takes.
Route(req) ==
  IF req.method = "OPTIONS" THEN "options"
  ELSE IF req.pathname = P_ROOT THEN "root"
  ELSE IF req.pathname = P_CHECK THEN "check"
  ELSE IF req.pathname = P_LAST_CHECK THEN "last-check"
  ELSE LET match == MatchCheckIndex(req.pathname) IN
       IF match.matched /\ IndexInRange(ParseInt(match.group)) THEN "single"
       ELSE "notfound"

\* JSON.stringify(value, null, 2)
JsonStringify(value) == <<"json", value>>

Respond(route, status, contentType, body) ==
  [route |-> route, status |-> status, contentType |-> contentType, body |-> body]

NotFoundResponse == Respond("notfound", 404, "text/plain", "Not Found")

JsonResponse(route, value) ==
  Respond(route, 200, "application/json", JsonStringify(value))

\* What the serving layer answers when the handler's promise rejects.
ServerErrorResponse(route) ==
  Respond(route, 500, "text/plain", "Internal Server Error")

-----------------------------------------------------------------------------
(* The cache, the batches and the scheduler                                *)

WriteCacheKeepHealthy(cache, results) ==
  IF cache = <<>> THEN results
  ELSE [i \in 1..Len(results) |-> IF results[i].healthy THEN results[i] ELSE cache[i]]

WriteCacheNewestStarted(cache, results) ==
  IF cache # <<>> /\ cache[1].id[1] > results[1].id[1] THEN cache ELSE results

WriteCacheDropFailed(cache, results) ==
  SelectSeq(results, LAMBDA rec : rec.healthy)

\* lastCheckResults = results (main.ts:90 and main.ts:285)
WriteCache(cache, results) == results

\* The continuation that assigned the cache most recently (and the one before it).
Wrote(b, results) ==
  lastWriter' = [batch |-> b, results |-> results, previous |-> lastWriter.batch]

\* Promise.all(ENDPOINTS.map(checkHealth)) and the single checkHealth of /check/{i}:
\* every probe of the invocation is started in the same step.
Start(invocation) ==
  /\ started < MaxBatches
  /\ started' = started + 1
  /\ batch' = [batch EXCEPT ![started + 1] = invocation]
  /\ probe' = [probe EXCEPT ![started + 1] =
                 [i \in Positions |->
                    IF invocation.kind = "single" /\ i # invocation.index + 1
                      THEN IdleProbe ELSE FetchingProbe]]

\* The invocation's awaited promise has settled.
AllSettled(b) == batch[b].kind # "none" /\ batch[b].remaining = 0

\* Promise.all rejects when one of its promises rejects.
Rejected(b) == \E i \in Probed(b) : probe[b][i].outcome.kind = "throw"

Release(b) ==
  /\ batch' = [batch EXCEPT ![b] = NoBatch]
  /\ probe' = [probe EXCEPT ![b] = [i \in Positions |-> IdleProbe]]

\* The id setInterval returns: fresh among the armed timers.
SetInterval(armed) == "timer-" \o ToString(Cardinality(armed) + 1)

Init ==
  /\ healthCheckInterval = Null
  /\ intervals = {}
  /\ lastCheckResults = <<>>
  /\ started = 0
  /\ batch = [b \in Batches |-> NoBatch]
  /\ probe = [b \in Batches |-> [i \in Positions |-> IdleProbe]]
  /\ resp = NoResponse
  /\ lastWriter = [batch |-> 0, results |-> <<>>, previous |-> 0]

SchedulerSetupUnguarded ==
  /\ Start(NewBatch("background"))
  /\ LET id == SetInterval(intervals) IN
       /\ intervals' = intervals \cup {[id |-> id, period |-> INTERVAL_MS]}
       /\ healthCheckInterval' = id
  /\ Silent
  /\ UNCHANGED <<lastCheckResults, lastWriter>>

\* main.ts:337-343: the immediate run and the repeating timer.
SchedulerSetup ==
  /\ healthCheckInterval = Null
  /\ Start(NewBatch("background"))
  /\ LET id == SetInterval(intervals) IN
       /\ intervals' = intervals \cup {[id |-> id, period |-> INTERVAL_MS]}
       /\ healthCheckInterval' = id
  /\ Silent
  /\ UNCHANGED <<lastCheckResults, lastWriter>>

TickSkipIfRunning ==
  /\ intervals # {}
  /\ \A b \in Batches : batch[b].kind = "none"
  /\ Start(NewBatch("background"))
  /\ Silent
  /\ UNCHANGED <<healthCheckInterval, lastCheckResults, intervals, lastWriter>>

\* A repeating timer fires: backgroundHealthCheck() up to its await.
Tick ==
  /\ intervals # {}
  /\ Start(NewBatch("background"))
  /\ Silent
  /\ UNCHANGED <<healthCheckInterval, lastCheckResults, intervals, lastWriter>>

\* backgroundHealthCheck after its await (main.ts:90-91).
BackgroundCompletes(b) ==
  /\ batch[b].kind = "background"
  /\ AllSettled(b)
  /\ IF Rejected(b)
       THEN UNCHANGED <<lastCheckResults, lastWriter>>
       ELSE /\ lastCheckResults' = WriteCache(lastCheckResults, batch[b].values)
            /\ Wrote(b, batch[b].values)
  /\ Release(b)
  /\ Silent
  /\ UNCHANGED <<healthCheckInterval, started, intervals>>

\* The requests are served once the module has been evaluated.
Serving == healthCheckInterval # Null

\* The branch of the handler each request takes, tabulated.
Dispatch == [req \in Requests |-> Route(req)]

HandleOptions(req) ==
  /\ Serving
  /\ Dispatch[req] = "options"
  /\ resp' = Respond("options", 200, Null, Null)
  /\ UNCHANGED <<healthCheckInterval, lastCheckResults, started, batch, probe, intervals, lastWriter>>

HandleRoot(req) ==
  /\ Serving
  /\ Dispatch[req] = "root"
  /\ resp' = Respond("root", 200, "text/html; charset=utf-8", "<!DOCTYPE html>")
  /\ UNCHANGED <<healthCheckInterval, lastCheckResults, started, batch, probe, intervals, lastWriter>>

\* /check up to its await (main.ts:281-282)
HandleCheck(req) ==
  /\ Serving
  /\ Dispatch[req] = "check"
  /\ Start(NewBatch("check"))
  /\ Silent
  /\ UNCHANGED <<healthCheckInterval, lastCheckResults, intervals, lastWriter>>

CheckCompletesServingCache(b) ==
  /\ batch[b].kind = "check"
  /\ AllSettled(b)
  /\ resp' = JsonResponse("check", IF lastCheckResults # <<>>
                                     THEN lastCheckResults ELSE batch[b].values)
  /\ lastCheckResults' = IF lastCheckResults # <<>>
                           THEN lastCheckResults ELSE batch[b].values
  /\ Wrote(b, lastCheckResults')
  /\ Release(b)
  /\ UNCHANGED <<healthCheckInterval, started, intervals>>

\* /check after its await (main.ts:285-292)
CheckCompletes(b) ==
  /\ batch[b].kind = "check"
  /\ AllSettled(b)
  /\ IF Rejected(b)
       THEN /\ resp' = ServerErrorResponse("check")
            /\ UNCHANGED <<lastCheckResults, lastWriter>>
       ELSE /\ lastCheckResults' = WriteCache(lastCheckResults, batch[b].values)
            /\ Wrote(b, batch[b].values)
            /\ resp' = JsonResponse("check", batch[b].values)
  /\ Release(b)
  /\ UNCHANGED <<healthCheckInterval, started, intervals>>

HandleLastCheckDraining(req) ==
  /\ Serving
  /\ Dispatch[req] = "last-check"
  /\ resp' = JsonResponse("last-check", lastCheckResults)
  /\ lastCheckResults' = <<>>
  /\ UNCHANGED <<healthCheckInterval, started, batch, probe, intervals, lastWriter>>

\* /last-check (main.ts:296-303)
HandleLastCheck(req) ==
  /\ Serving
  /\ Dispatch[req] = "last-check"
  /\ resp' = JsonResponse("last-check", lastCheckResults)
  /\ UNCHANGED <<healthCheckInterval, lastCheckResults, started, batch, probe, intervals, lastWriter>>

\* /check/{index} up to its await (main.ts:306-310)
HandleSingle(req) ==
  /\ Serving
  /\ Dispatch[req] = "single"
  /\ Start(NewSingle(ParseInt(MatchCheckIndex(req.pathname).group)))
  /\ Silent
  /\ UNCHANGED <<healthCheckInterval, lastCheckResults, intervals, lastWriter>>

SingleCompletesUpdatingCache(b) ==
  /\ batch[b].kind = "single"
  /\ AllSettled(b)
  /\ resp' = JsonResponse("single", batch[b].values[batch[b].index + 1])
  /\ lastCheckResults' =
       IF lastCheckResults = <<>> THEN lastCheckResults
       ELSE [lastCheckResults EXCEPT ![batch[b].index + 1] = batch[b].values[batch[b].index + 1]]
  /\ Release(b)
  /\ UNCHANGED <<healthCheckInterval, started, intervals, lastWriter>>

\* /check/{index} after its await (main.ts:312-317)
SingleCompletes(b) ==
  /\ batch[b].kind = "single"
  /\ AllSettled(b)
  /\ resp' = IF Rejected(b)
               THEN ServerErrorResponse("single")
               ELSE JsonResponse("single", batch[b].values[batch[b].index + 1])
  /\ Release(b)
  /\ UNCHANGED <<healthCheckInterval, lastCheckResults, started, intervals, lastWriter>>

\* main.ts:322-328
HandleNotFound(req) ==
  /\ Serving
  /\ Dispatch[req] = "notfound"
  /\ resp' = NotFoundResponse
  /\ UNCHANGED <<healthCheckInterval, lastCheckResults, started, batch, probe, intervals, lastWriter>>

\* One call of handler(req), up to its first await.
Handler(req) ==
  \/ HandleOptions(req)
  \/ HandleRoot(req)
  \/ HandleCheck(req)
  \/ HandleLastCheck(req)
  \/ HandleSingle(req)
  \/ HandleNotFound(req)

Next ==
  \/ SchedulerSetup
  \/ Tick
  \/ \E req \in Requests : HandleOptions(req)
  \/ \E req \in Requests : HandleRoot(req)
  \/ \E req \in Requests : HandleCheck(req)
  \/ \E req \in Requests : HandleLastCheck(req)
  \/ \E req \in Requests : HandleSingle(req)
  \/ \E req \in Requests : HandleNotFound(req)
  \/ \E b \in Batches : BackgroundCompletes(b)
  \/ \E b \in Batches : CheckCompletes(b)
  \/ \E b \in Batches : SingleCompletes(b)
  \/ \E b \in Batches, i \in Positions : ResponseArrives(b, i)
  \/ \E b \in Batches, i \in Positions : DeadlineFires(b, i)
  \/ \E b \in Batches, i \in Positions : AbortRejects(b, i)
  \/ \E b \in Batches, i \in Positions : FetchFails(b, i)
  \/ \E b \in Batches, i \in Positions : BodyArrives(b, i)
  \/ \E b \in Batches, i \in Positions : BodyBreaks(b, i)

Spec == Init /\ [][Next]_vars

\* What the runtime guarantees: an armed deadline timer fires, an aborted fetch
\* rejects, and a continuation whose promise has settled runs. The remote
\* endpoints owe nothing.
Fairness ==
  /\ \A b \in Batches, i \in Positions : WF_vars(DeadlineFires(b, i))
  /\ \A b \in Batches, i \in Positions : WF_vars(AbortRejects(b, i))
  /\ \A b \in Batches : WF_vars(BackgroundCompletes(b))
  /\ \A b \in Batches : WF_vars(CheckCompletes(b))
  /\ \A b \in Batches : WF_vars(SingleCompletes(b))

FairSpec == Init /\ [][Next]_vars /\ Fairness

\* The start-up batch alone, its endpoints answering with any reply of AllReplies.
ProbeNext ==
  \/ SchedulerSetup
  \/ \E b \in Batches : BackgroundCompletes(b)
  \/ \E b \in Batches, i \in Positions : AnyResponseArrives(b, i)
  \/ \E b \in Batches, i \in Positions : DeadlineFires(b, i)
  \/ \E b \in Batches, i \in Positions : AbortRejects(b, i)
  \/ \E b \in Batches, i \in Positions : FetchFails(b, i)
  \/ \E b \in Batches, i \in Positions : BodyArrives(b, i)
  \/ \E b \in Batches, i \in Positions : BodyBreaks(b, i)

ProbeSpec == Init /\ [][ProbeNext]_vars

\* The process with no client request ever arriving: the start-up run, the
\* ticks of the timer and the probes of the background batches.
QuietNext ==
  \/ SchedulerSetup
  \/ Tick
  \/ \E b \in Batches : BackgroundCompletes(b)
  \/ \E b \in Batches, i \in Positions : ResponseArrives(b, i)
  \/ \E b \in Batches, i \in Positions : DeadlineFires(b, i)
  \/ \E b \in Batches, i \in Positions : AbortRejects(b, i)
  \/ \E b \in Batches, i \in Positions : FetchFails(b, i)
  \/ \E b \in Batches, i \in Positions : BodyArrives(b, i)
  \/ \E b \in Batches, i \in Positions : BodyBreaks(b, i)

QuietSpec == Init /\ [][QuietNext]_vars /\ Fairness

-----------------------------------------------------------------------------
(* Properties                                                              *)

\* The invocations that write the cache.
IsBatch(b) == batch[b].kind \in {"background", "check"}

\* The records of an array, all built by the probes of the single batch b.
FromOneBatch(records, b) ==
  /\ Len(records) = N
  /\ \A i \in 1..N : records[i].id[1] = b

\* C1: in every reachable state the cache is empty or holds exactly n records,
\* all built by the probes of one single batch invocation: never a mixture of
\* two batches, never a partially filled batch.
C1_CacheHoldsOneWholeBatch ==
  \/ lastCheckResults = <<>>
  \/ \E b \in Batches : FromOneBatch(lastCheckResults, b)

\* The cache is full while another batch is half way through its probes.
C1_Witness ==
  /\ lastCheckResults # <<>>
  /\ \E b \in Batches : IsBatch(b) /\ batch[b].remaining = 1

\* The value array of a batch: n records, the one at position i built by the
\* probe of ENDPOINTS[i] and carrying its name and url.
InInputOrder(records, b) ==
  /\ Len(records) = N
  /\ \A i \in 1..N :
       /\ records[i].id = <<b, i>>
       /\ records[i].name = ENDPOINTS[i].name
       /\ records[i].url = ENDPOINTS[i].url

\* C2: every completed batch yields exactly n records, the record at position i
\* carrying the name and url of ENDPOINTS[i], whatever the order in which the
\* probes finished.
C2_BatchKeepsInputOrder ==
  /\ \A b \in Batches : IsBatch(b) /\ AllSettled(b) => InInputOrder(batch[b].values, b)
  /\ lastWriter.batch # 0 => InInputOrder(lastWriter.results, lastWriter.batch)
  /\ resp.route = "check" => InInputOrder(resp.body[2], lastWriter.batch)

\* A batch whose last probe finished first has all its values.
C2_Witness ==
  \E b \in Batches :
    /\ IsBatch(b)
    /\ AllSettled(b)
    /\ batch[b].finished[1] = N

\* C3: GET /last-check answers an empty array while no batch has completed, and
\* otherwise the records, verbatim, of the batch that completed and wrote the
\* cache most recently, whichever batch was started first.
C3_LastCheckReturnsLatestWriter ==
  resp.route = "last-check" =>
    /\ resp.status = 200
    /\ resp.body = JsonStringify(lastWriter.results)
    /\ lastWriter.batch = 0 => resp.body = JsonStringify(<<>>)

\* /last-check answers after the batch started first completed last.
C3_Witness ==
  /\ resp.route = "last-check"
  /\ lastWriter.batch = 1
  /\ lastWriter.previous = 2

\* A probe that has been started and has not returned.
InFlight(b, i) == probe[b][i].pc \in {"fetching", "aborted", "reading"}

\* C4: every started probe eventually completes with a record and every started
\* batch eventually completes, whatever the remote endpoint does, provided the
\* deadline timer fires when armed.
C4_EveryProbeAndBatchCompletes ==
  /\ \A b \in Batches, i \in Positions : InFlight(b, i) ~> (probe[b][i].pc = "done")
  /\ \A b \in Batches : (batch[b].kind # "none") ~> (batch[b].kind = "none")

\* The record checkHealth returned inside a probe that is done.
Returned(b, i) == probe[b][i].outcome.rec

\* The failure shape: status 0, unhealthy, an error, neither latency nor response.
IsFailureRecord(rec) ==
  /\ rec.status = 0
  /\ rec.healthy = FALSE
  /\ "error" \in DOMAIN rec
  /\ "latency" \notin DOMAIN rec
  /\ "response" \notin DOMAIN rec

\* The body of a reply can be read: it is not declared JSON, or it is JSON.
Readable(reply) == ~IncludesJson(reply.contentType) \/ JsonParse(reply.body).ok

\* C5: checkHealth never fails: whatever the fetch and the body read do, it
\* returns a record, so no batch rejects; a failure shows only as the failed
\* record at the position of its endpoint.
C5_ProbesNeverFail ==
  /\ \A b \in Batches, i \in Positions :
       probe[b][i].pc = "done" =>
         /\ probe[b][i].outcome.kind = "return"
         /\ batch[b].values[i] = Returned(b, i)
         /\ (probe[b][i].settled # "body" \/ ~Readable(probe[b][i].received)) =>
              IsFailureRecord(batch[b].values[i])
  /\ \A b \in Batches : AllSettled(b) => ~Rejected(b)

\* A settled batch whose first endpoint sent a body that is no JSON and whose
\* second is healthy.
C5_Witness ==
  \E b \in Batches :
    /\ IsBatch(b)
    /\ AllSettled(b)
    /\ probe[b][1].settled = "body"
    /\ ~Readable(probe[b][1].received)
    /\ batch[b].values[2].healthy

\* Every record there is: returned by a probe, held by a pending batch, held in
\* the cache, or in the body of a response.
Records ==
  {Returned(b, i) : <<b, i>> \in {q \in Batches \X Positions : probe[q[1]][q[2]].pc = "done"}}
  \cup {batch[b].values[i] :
          <<b, i>> \in {q \in Batches \X Positions :
                          batch[q[1]].kind # "none" /\ batch[q[1]].values[q[2]] # Hole}}
  \cup {lastCheckResults[i] : i \in 1..Len(lastCheckResults)}
  \cup (IF resp.route \in {"check", "last-check"} /\ resp.status = 200
          THEN {resp.body[2][i] : i \in 1..Len(resp.body[2])} ELSE {})
  \cup (IF resp.route = "single" /\ resp.status = 200 THEN {resp.body[2]} ELSE {})

\* C6: every record has one of two shapes, (latency and response, no error) or
\* (error, neither latency nor response), and is healthy iff 200 <= status < 300.
C6_RecordShape ==
  \A rec \in Records :
    /\ \/ {"latency", "response"} \subseteq DOMAIN rec /\ "error" \notin DOMAIN rec
       \/ "error" \in DOMAIN rec /\ {"latency", "response"} \cap DOMAIN rec = {}
    /\ rec.healthy <=> (200 <= rec.status /\ rec.status < 300)

\* The cache holds a record of each shape.
C6_Witness ==
  /\ lastCheckResults # <<>>
  /\ "error" \in DOMAIN lastCheckResults[1]
  /\ "response" \in DOMAIN lastCheckResults[2]

\* C7: when the deadline elapses before a response has arrived, the request is
\* aborted and the record of the probe is the failure record.
C7_DeadlineAborts ==
  [][\A b \in Batches, i \in Positions :
       /\ (probe[b][i].pc = "fetching" /\ probe'[b][i].pc # "idle"
             /\ probe'[b][i].timer = "fired") => probe'[b][i].pc = "aborted"
       /\ (probe[b][i].pc = "aborted" /\ probe'[b][i] # probe[b][i]) =>
            /\ probe'[b][i].pc = "done"
            /\ probe'[b][i].outcome.kind = "return"
            /\ IsFailureRecord(probe'[b][i].outcome.rec)]_vars

\* A probe whose fetch was aborted by the deadline has returned.
C7_Witness ==
  \E b \in Batches, i \in Positions :
    probe[b][i].pc = "done" /\ probe[b][i].settled = "aborted"

\* C8: for every status s answered with a readable body the record has status s,
\* healthy = (200 <= s < 300), a response and no error; a 200 with a JSON body
\* is healthy with the parsed JSON as response, a 503 is unhealthy.
C8_AnsweredStatusIsReported ==
  \A b \in Batches, i \in Positions :
    (probe[b][i].pc = "done" /\ probe[b][i].settled = "body"
       /\ Readable(probe[b][i].received)) =>
      LET reply == probe[b][i].received
          rec   == Returned(b, i)
      IN /\ rec.status = reply.status
         /\ rec.healthy = (200 <= reply.status /\ reply.status < 300)
         /\ "response" \in DOMAIN rec
         /\ "error" \notin DOMAIN rec
         /\ rec.response = IF IncludesJson(reply.contentType)
                             THEN JsonParse(reply.body).value ELSE TextOf(reply.body)
         /\ (reply.status = 200 /\ reply.contentType = CT_JSON /\ reply.body = BODY_OK) =>
              rec.healthy /\ rec.response = <<"object", "status", "ok">>
         /\ reply.status = 503 => ~rec.healthy /\ rec.status = 503

\* Probes answered 200 with JSON, 503 and 300 have returned in one batch run.
C8_Witness ==
  \E b \in Batches :
    /\ probe[b][1].pc = "done" /\ probe[b][1].settled = "body"
    /\ probe[b][1].received = [status |-> 200, contentType |-> CT_JSON, body |-> BODY_OK]
    /\ probe[b][2].pc = "done" /\ probe[b][2].settled = "body"
    /\ probe[b][2].received.status = 503

\* url.pathname of /check/{i} for a one-digit i
IndexPath(i) == P_CHECK_SLASH \o <<Digits[i + 1]>>

\* GET /check/{i}
GetIndex == [i \in 0..N |-> [method |-> "GET", pathname |-> IndexPath(i)]]

\* GET /check/-1
GetMinusOne == [method |-> "GET", pathname |-> P_CHECK_SLASH \o <<"-", "1">>]

\* The probes whose state a step changes.
Touched == {q \in Batches \X Positions : probe'[q[1]][q[2]] # probe[q[1]][q[2]]}

\* The record of a probe that is done follows the classification rules.
Classified(p) ==
  IF p.settled = "body" /\ Readable(p.received)
    THEN /\ p.outcome.rec.status = p.received.status
         /\ p.outcome.rec.healthy = (200 <= p.received.status /\ p.received.status < 300)
         /\ {"latency", "response"} \subseteq DOMAIN p.outcome.rec
         /\ "error" \notin DOMAIN p.outcome.rec
    ELSE IsFailureRecord(p.outcome.rec)

\* C9: GET /check/{i} answers 404 'Not Found' and starts no probe when i is
\* outside [0, n); for i in [0, n) it starts exactly one probe, of ENDPOINTS[i],
\* and answers 200 with one record that carries the name and url of that
\* endpoint and is classified by the rules of a batch record.
C9_SingleCheck ==
  [][/\ \A i \in 0..N :
          Handler(GetIndex[i]) =>
            IF 0 <= i /\ i < N
              THEN /\ started' = started + 1
                   /\ batch'[started'].kind = "single"
                   /\ batch'[started'].index = i
                   /\ Touched = {<<started', i + 1>>}
                   /\ probe'[started'][i + 1].pc = "fetching"
              ELSE /\ resp'.status = 404
                   /\ resp'.body = "Not Found"
                   /\ UNCHANGED <<probe, batch, started>>
     /\ Handler(GetMinusOne) =>
          /\ resp'.status = 404
          /\ resp'.body = "Not Found"
          /\ UNCHANGED <<probe, batch, started>>
     /\ \A b \in Batches :
          SingleCompletes(b) =>
            LET k == batch[b].index + 1 IN
            /\ resp'.status = 200
            /\ resp'.body = JsonStringify(Returned(b, k))
            /\ resp'.body[2].name = ENDPOINTS[k].name
            /\ resp'.body[2].url = ENDPOINTS[k].url
            /\ Classified(probe[b][k])
     /\ \A b \in Batches, i \in Positions :
          probe[b][i].pc = "done" => Classified(probe[b][i])]_vars

\* /check/1 has answered with a record of the second endpoint.
C9_Witness ==
  /\ resp.route = "single"
  /\ resp.status = 200
  /\ resp.body[2].name = ENDPOINTS[2].name

\* C10: the cache is written only when a /check batch or a background batch
\* completes: /check/{i}, /last-check, /, OPTIONS and 404 requests leave it
\* unchanged, and /last-check starts no probe.
C10_OnlyBatchesWriteCache ==
  [][/\ lastCheckResults' # lastCheckResults =>
          /\ \E b \in Batches : BackgroundCompletes(b) \/ CheckCompletes(b)
          /\ \A req \in Requests : ~Handler(req)
          /\ \A b \in Batches : ~SingleCompletes(b)
     /\ Handler([method |-> "GET", pathname |-> P_LAST_CHECK]) =>
          /\ resp'.route = "last-check"
          /\ UNCHANGED <<probe, batch, started>>]_vars

\* /check/{i} has answered while the cache was filled.
C10_Witness ==
  /\ resp.route = "single"
  /\ resp.status = 200
  /\ lastCheckResults # <<>>

\* GET /last-check
GetLastCheck == [method |-> "GET", pathname |-> P_LAST_CHECK]

\* C11: two consecutive GET /last-check requests with no check completing in
\* between return identical content: the content is the serialised cache, the
\* request leaves the cache as it was, and so does every step that is not the
\* completion of a batch.
C11_LastCheckIsIdempotent ==
  [][/\ Handler(GetLastCheck) =>
          /\ resp' = JsonResponse("last-check", lastCheckResults)
          /\ lastCheckResults' = lastCheckResults
          /\ resp.route = "last-check" => resp' = resp
     /\ (\A b \in Batches : ~BackgroundCompletes(b) /\ ~CheckCompletes(b)) =>
          lastCheckResults' = lastCheckResults]_vars

\* /last-check has answered the filled cache while a batch is in flight.
C11_Witness ==
  /\ resp.route = "last-check"
  /\ resp.body = JsonStringify(lastCheckResults)
  /\ lastCheckResults # <<>>
  /\ \E b \in Batches : IsBatch(b) /\ ~AllSettled(b)

\* The requests of the documented surface: GET /, GET /check, GET /last-check
\* and GET /check/{index} with the index in range.
Listed(req) ==
  /\ req.method = "GET"
  /\ \/ req.pathname \in {P_ROOT, P_CHECK, P_LAST_CHECK}
     \/ /\ MatchCheckIndex(req.pathname).matched
        /\ IndexInRange(ParseInt(MatchCheckIndex(req.pathname).group))

\* The requests that are neither OPTIONS nor of the documented surface.
Unlisted == {req \in Requests : req.method # "OPTIONS" /\ ~Listed(req)}

\* C12: a request that is not OPTIONS and whose method and path are not one of
\* GET /, GET /check, GET /last-check or GET /check/{index in range} is answered
\* with 404 'Not Found', starts no probe and leaves the cache unchanged.
C12_UnlistedRequestsAreNotFound ==
  [][\A req \in Unlisted :
       Handler(req) =>
         /\ resp' = NotFoundResponse
         /\ UNCHANGED <<probe, batch, started, lastCheckResults>>]_vars

\* C13: at process start exactly one batch is started immediately and exactly
\* one repeating timer is armed; in every reachable state at most one repeating
\* background timer exists.
C13_OneSchedulerPerProcess ==
  [][/\ SchedulerSetup =>
          /\ started = 0 /\ started' = 1
          /\ batch'[1] = NewBatch("background")
          /\ \A i \in Positions : probe'[1][i] = FetchingProbe
          /\ \A b \in Batches \ {1} : batch'[b] = NoBatch
          /\ intervals = {}
          /\ intervals' = {[id |-> healthCheckInterval', period |-> INTERVAL_MS]}
     /\ Cardinality(intervals') <= 1
     /\ intervals' # intervals => SchedulerSetup]_vars

\* The one timer is armed and has ticked while the start-up batch was pending.
C13_Witness ==
  /\ Cardinality(intervals) = 1
  /\ healthCheckInterval \in {t.id : t \in intervals}
  /\ batch[1].kind = "background"
  /\ batch[2].kind = "background"

\* C14: every tick of the background timer starts a new batch over all n
\* endpoints unconditionally: while the timer is armed a tick can proceed
\* whatever the earlier probes returned and whichever batches are in flight,
\* and the timer stays armed.
C14_EveryTickStartsABatch ==
  /\ []((intervals # {} /\ started < MaxBatches) => ENABLED Tick)
  /\ [][/\ Tick =>
             /\ started' = started + 1
             /\ batch'[started'] = NewBatch("background")
             /\ \A i \in Positions : probe'[started'][i] = FetchingProbe
             /\ \A b \in Batches \ {started'} :
                  batch'[b] = batch[b] /\ probe'[b] = probe[b]
             /\ UNCHANGED <<intervals, healthCheckInterval, lastCheckResults>>
        /\ intervals \subseteq intervals']_vars

\* A tick has started a batch while the start-up batch, one of whose probes
\* failed, is still in flight.
C14_Witness ==
  /\ batch[1].kind = "background"
  /\ batch[1].remaining = 1
  /\ \E i \in Positions : probe[1][i].pc = "done" /\ probe[1][i].settled = "failed"
  /\ batch[2].kind = "background"
  /\ batch[2].remaining = N

\* C15: with no client request ever arriving, the cache eventually becomes
\* non-empty: the batch started at process start eventually completes and
\* stores its n records.
C15_CacheEventuallyWarm ==
  Serving ~> (Len(lastCheckResults) = N)

\* C16: a failure while reading or parsing the body of a response that did
\* arrive (the connection breaks, or the body is no JSON under a JSON content
\* type) yields the failure record, status 0, unhealthy, with the error and
\* without latency and response, even when the status received was in 200..299.
C16_BodyFailureYieldsFailureRecord ==
  \A b \in Batches, i \in Positions :
    probe[b][i].pc = "done" =>
      /\ probe[b][i].settled = "broken" =>
           /\ probe[b][i].outcome.kind = "return"
           /\ IsFailureRecord(Returned(b, i))
           /\ Returned(b, i).error = BODY_MESSAGE
      /\ (probe[b][i].settled = "body" /\ ~Readable(probe[b][i].received)) =>
           /\ probe[b][i].outcome.kind = "return"
           /\ IsFailureRecord(Returned(b, i))
           /\ Returned(b, i).error = JsonParse(probe[b][i].received.body).message

\* A 200 declared JSON whose body is no JSON, and a body read that broke.
C16_Witness ==
  \E b \in Batches :
    /\ probe[b][1].pc = "done" /\ probe[b][1].settled = "body"
    /\ probe[b][1].received.status = 200
    /\ IncludesJson(probe[b][1].received.contentType)
    /\ ~JsonParse(probe[b][1].received.body).ok
    /\ Returned(b, 1).status = 0
    /\ probe[b][2].pc = "done" /\ probe[b][2].settled = "broken"

\* The probes whose request is issued in a step.
Issued ==
  {q \in Batches \X Positions :
     probe'[q[1]][q[2]].pc = "fetching" /\ probe'[q[1]][q[2]] # probe[q[1]][q[2]]}

\* C17: no retries: a request is issued only in the step that starts an
\* invocation, one for each endpoint of a batch and one for GET /check/{i}, and
\* a probe that failed, was aborted or returned never issues another.
C17_NoRetries ==
  [][/\ started' = started => Issued = {}
     /\ started' # started =>
          /\ started' = started + 1
          /\ batch[started'].kind = "none"
          /\ \A i \in Positions : probe[started'][i].pc = "idle"
          /\ Issued = IF batch'[started'].kind = "single"
                        THEN {<<started', batch'[started'].index + 1>>}
                        ELSE {started'} \X Positions
     /\ \A b \in Batches, i \in Positions :
          probe[b][i].pc \in {"aborted", "reading", "done"} =>
            probe'[b][i].pc \in {probe[b][i].pc, "done", "idle"}
     /\ \A b \in Batches, i \in Positions :
          (probe[b][i].pc = "fetching" /\ probe'[b][i] # probe[b][i]) =>
            probe'[b][i].pc \in {"aborted", "reading", "done"}]_vars

\* A batch has settled with one probe failed and the other aborted, and
\* /check/{i} has answered a failure record.
C17_Witness ==
  /\ \E b \in Batches :
       /\ IsBatch(b)
       /\ AllSettled(b)
       /\ probe[b][1].settled = "failed"
       /\ probe[b][2].settled = "aborted"
  /\ resp.route = "single"
  /\ resp.status = 200
  /\ IsFailureRecord(resp.body[2])

\* C18: the deadline timer of a fetch is cancelled as soon as the fetch
\* settles: the timer is pending exactly while the fetch is, it is cleared once
\* the response has arrived or the call has failed, and the abort never fires
\* for a request whose response has arrived.
C18_DeadlineTimerIsCleared ==
  /\ [](\A b \in Batches, i \in Positions :
          /\ probe[b][i].pc # "idle" =>
               (probe[b][i].timer = "armed" <=> probe[b][i].pc = "fetching")
          /\ probe[b][i].pc \in {"reading", "done"} =>
               /\ probe[b][i].timer = "cleared"
               /\ ~ENABLED DeadlineFires(b, i))
  /\ [][\A b \in Batches, i \in Positions :
          probe[b][i].pc \in {"reading", "done"} =>
            /\ probe'[b][i].pc # "aborted"
            /\ probe'[b][i].pc # "idle" => probe'[b][i].timer = "cleared"]_vars

\* A response that arrived one millisecond before the deadline has been read,
\* and the fetch of the other probe has failed.
C18_Witness ==
  \E b \in Batches :
    /\ probe[b][1].pc = "done" /\ probe[b][1].settled = "body"
    /\ probe[b][1].timer = "cleared"
    /\ "latency" \in DOMAIN Returned(b, 1)
    /\ Returned(b, 1).latency = FormatLatency(TIMEOUT_MS - 1)
    /\ probe[b][2].pc = "done" /\ probe[b][2].settled = "failed"
    /\ probe[b][2].timer = "cleared"

\* GET /check
GetCheck == [method |-> "GET", pathname |-> P_CHECK]

\* C19: GET /check never serves cached data: the request starts n fresh probes
\* and answers nothing before they settle; its response is the array of the
\* records those probes returned, and in the step that responds the cache
\* becomes exactly that array, whatever another batch wrote in the meantime.
C19_CheckServesItsOwnProbes ==
  [][/\ Handler(GetCheck) =>
          /\ started' = started + 1
          /\ batch'[started'] = NewBatch("check")
          /\ \A i \in Positions : probe'[started'][i] = FetchingProbe
          /\ resp' = NoResponse
          /\ lastCheckResults' = lastCheckResults
     /\ \A b \in Batches :
          CheckCompletes(b) =>
            /\ resp' = JsonResponse("check", batch[b].values)
            /\ lastCheckResults' = batch[b].values
            /\ \A i \in Positions :
                 /\ batch[b].values[i] = Returned(b, i)
                 /\ batch[b].values[i].id = <<b, i>>
     /\ resp'.route = "check" => \E b \in Batches : CheckCompletes(b)]_vars

\* /check has answered its own records after the background batch had written
\* the cache.
C19_Witness ==
  /\ resp.route = "check"
  /\ resp.status = 200
  /\ resp.body = JsonStringify(lastCheckResults)
  /\ lastWriter.previous # 0
  /\ lastWriter.previous # lastWriter.batch
  /\ \A i \in Positions : lastCheckResults[i].id[1] = lastWriter.batch

\* C20: once the cache has become non-empty it never becomes empty again: every
\* write replaces the whole sequence with the n records of a complete batch, so
\* every later state has exactly n records in the cache.
C20_CacheStaysFull ==
  [][/\ lastCheckResults # <<>> => Len(lastCheckResults') = N
     /\ lastCheckResults' # lastCheckResults =>
          /\ Len(lastCheckResults') = N
          /\ \E b \in Batches :
               /\ IsBatch(b)
               /\ AllSettled(b)
               /\ lastCheckResults' = batch[b].values]_vars

\* The cache has been overwritten by a second batch all of whose probes failed.
C20_Witness ==
  /\ lastWriter.previous # 0
  /\ Len(lastCheckResults) = N
  /\ \A i \in Positions : IsFailureRecord(lastCheckResults[i])

=============================================================================
